---------------------------- MODULE Spec2Model ----------------------------
(***************************************************************************)
(* A model of DealerClient (src/docs/.vuepress/config.js): the client of   *)
(* the Zaidan dealer server in its two protocol variants, the v3 class     *)
(* (lines 76-566) and the v1 class (lines 589-1114).                       *)
(*                                                                         *)
(* The client object is the record `client`; every public async method is  *)
(* a call record that moves from one suspension point (await) to the next. *)
(* The dealer server, the signing provider, the chain and the clock are    *)
(* the environment: their answers are nondeterministic.                    *)
(***************************************************************************)
EXTENDS Integers, Sequences, FiniteSets, TLC

VARIABLES
    version,     \* which class was constructed: "v3" or "v1"
    client,      \* the fields of the DealerClient object
    initPc,      \* the await init() is suspended at, "idle" when none runs
    quoteCall,   \* the getQuote / getSwapQuote execution under way
    tradeCalls,  \* handleTrade executions
    allowCall,   \* the hasAllowance / setAllowance execution under way
    approved,    \* tickers whose setAllowance has resolved and that no
                 \* hasAllowance call has looked at since
    now,         \* wall clock, in the unit of Quote.expiration
    submitted,   \* quote ids for which an order POST has returned a txId
    allowance,   \* chain: proxy allowance of the taker, per token address
    txs,         \* chain: status of each transaction id
    waitCall,    \* the waitForTransactionSuccessOrThrow execution under way
    sufficient,  \* tickers for which a hasAllowance call has returned true
    dealerVersion, \* the API version served by the dealer at dealerUrl
    bigNumberCall  \* the makeBigNumber call made last

vars == <<version, client, initPc, quoteCall, tradeCalls, allowCall,
          approved, now, submitted, allowance, txs, waitCall, sufficient,
          dealerVersion, bigNumberCall>>

---------------------------------------------------------------------------
(* Bounds of the model *)

\* concurrent handleTrade executions
MaxTradeCalls == 2
\* last instant of the clock
MaxTime == 2
\* quote ids the dealer hands out
MaxQuoteId == 2
\* bit width of an allowance (256 in the program)
AllowanceBits == 3
\* transaction ids the chain hands out
MaxTxId == 2

TradeCallIds == 1..MaxTradeCalls
Times == 0..MaxTime
QuoteIds == 1..MaxQuoteId
TxIds == 1..MaxTxId

---------------------------------------------------------------------------
(* The environment's data *)

Versions == {"v3", "v1"}

\* answers of GET markets: lists of "BASE/QUOTE" pair strings
MarketLists == {{"WETH/DAI"}, {"WETH/DAI", "ZRX/WETH"}}

\* answer of GET assets: ticker -> token address
AssetMap == [t \in {"DAI", "WETH"} |-> IF t = "DAI" THEN "0xDAI" ELSE "0xWETH"]
TokenAddresses == {"0xDAI", "0xWETH"}

Tickers == {"DAI", "WETH", "ZRX"}
Symbols == {"WETH/DAI", "DAI/WETH", "ZRX/WETH"}
Sides == {"bid", "ask", "buy"}

TakerAddress == "0xTAKER"
\* a second account of the same wallet
OtherAddress == "0xOTHER"
MainNetworkId == 1

(* JavaScript values passed as `size`: a number (finite, NaN or an         *)
(* infinity) or a string.                                                  *)
Num(n) == [t |-> "number", k |-> "finite", n |-> n]
NaN == [t |-> "number", k |-> "NaN", n |-> 0]
PosInfinity == [t |-> "number", k |-> "Infinity", n |-> 0]
Str(n) == [t |-> "string", k |-> "finite", n |-> n]
TypeOf(x) == x.t
SizeInputs == {Num(1), Num(0), Num(-1), NaN, PosInfinity, Str(1)}

\* "finite positive number" of the Quote Requester's precondition
IsFinitePositive(x) == TypeOf(x) = "number" /\ x.k = "finite" /\ x.n > 0

---------------------------------------------------------------------------
(* Error messages of the program *)

ErrNotInitialized == "not initialized (call .init() first)"
ErrSide == "side must be \"bid\" or \"ask\""
ErrUnsupportedPair == "unsupported token pair (see .pairs)"
ErrSizeType == "size must be a number"
ErrUnsupportedMarket == "configured dealer unable to server requested market"
ErrUnsupportedTicker == "unsupported token ticker"
ErrSignPrefix == "failed to sign fill transaction: "
ErrSubmitPrefix == "failed to submit trade: "
\* thrown by the runtime on a property read of null or undefined
ErrTypeError == "TypeError"
\* axios rejections: no response at all, or a non-2xx status
ErrTransport == "Network Error"
ErrHttpStatus == "Request failed with status code 4xx"
\* rejections of the signing provider and of the chain
ErrProvider == "provider rejected"
ErrReverted == "transaction reverted"

---------------------------------------------------------------------------
(* The client object *)

\* constructor: v3 lines 142-157, v1 lines 652-671
NewClient(v) ==
    [initialized |-> FALSE,
     networkId |-> 0,
     coinbase |-> "null",
     contractWrappers |-> FALSE,
     erc20Token |-> FALSE,
     web3 |-> FALSE,
     gasPrice |-> (v = "v1"),
     pairs |-> {},
     pairsDefined |-> FALSE,
     tokens |-> << >>,
     tokensDefined |-> FALSE]

\* the awaits of init(), in order
InitAwaits(v) ==
    IF v = "v3"
    THEN <<"networkId", "addresses", "gasPrice", "markets", "assets">>
    ELSE <<"metamask", "networkId", "coinbase", "markets", "assets">>

\* the await that follows `pc` in init(), "idle" after the last one
NextInitAwait(v, c, pc) ==
    LET s == InitAwaits(v)
        i == CHOOSE j \in 1..Len(s) : s[j] = pc
    IN IF i = Len(s) THEN "idle"
       ELSE IF s[i + 1] = "addresses" /\ c.coinbase # "null" THEN s[i + 2]
       ELSE s[i + 1]

\* init() with the initialized flag raised once the markets are loaded
MutInitAssign_EarlyFlag(v, c, pc, val) ==
    CASE pc = "metamask" -> [c EXCEPT !.web3 = TRUE]
      [] pc = "networkId" ->
            [c EXCEPT !.networkId = val, !.contractWrappers = TRUE,
                      !.erc20Token = (@ \/ (v = "v3" /\ c.coinbase # "null"))]
      [] pc = "addresses" -> [c EXCEPT !.coinbase = val, !.erc20Token = TRUE]
      [] pc = "coinbase" -> [c EXCEPT !.coinbase = val]
      [] pc = "gasPrice" -> [c EXCEPT !.gasPrice = TRUE]
      [] pc = "markets" ->
            [c EXCEPT !.pairs = val, !.pairsDefined = TRUE,
                      !.initialized = TRUE]
      [] pc = "assets" -> [c EXCEPT !.tokens = val, !.tokensDefined = TRUE]

\* the assignments init() makes when the await `pc` resolves with `val`;
\* v3 skips the address lookup when coinbase is already set (line 177)
InitAssign(v, c, pc, val) ==
    CASE pc = "metamask" -> [c EXCEPT !.web3 = TRUE]
      [] pc = "networkId" ->
            [c EXCEPT !.networkId = val, !.contractWrappers = TRUE,
                      !.erc20Token = (@ \/ (v = "v3" /\ c.coinbase # "null"))]
      [] pc = "addresses" -> [c EXCEPT !.coinbase = val, !.erc20Token = TRUE]
      [] pc = "coinbase" -> [c EXCEPT !.coinbase = val]
      [] pc = "gasPrice" -> [c EXCEPT !.gasPrice = TRUE]
      [] pc = "markets" -> [c EXCEPT !.pairs = val, !.pairsDefined = TRUE]
      [] pc = "assets" ->
            [c EXCEPT !.tokens = val, !.tokensDefined = TRUE,
                      !.initialized = TRUE]

\* what the environment can answer to the await `pc`
InitAnswers(pc) ==
    CASE pc = "networkId" -> {MainNetworkId}
      [] pc \in {"addresses", "coinbase"} -> {TakerAddress}
      [] pc = "markets" -> MarketLists
      [] pc = "assets" -> {AssetMap}
      [] OTHER -> {TRUE}

(* What the wallet answers to the account lookups of init() once the user  *)
(* has switched to another account, or when it exposes no account at all:  *)
(* addresses[0] is then undefined (v3 line 177) and getCoinbase() gives    *)
(* null (v1 line 707).                                                     *)
SwitchedAnswers(pc) ==
    IF pc \in {"addresses", "coinbase"} THEN {OtherAddress, "null"} ELSE {}

\* the client once a first init() has run to its end, markets being `m`
ClientAfterInit(v, m) ==
    LET s == InitAwaits(v)
        ans(pc) == IF pc = "markets" THEN m
                   ELSE CHOOSE x \in InitAnswers(pc) : TRUE
        c1 == InitAssign(v, NewClient(v), s[1], ans(s[1]))
        c2 == InitAssign(v, c1, s[2], ans(s[2]))
        c3 == InitAssign(v, c2, s[3], ans(s[3]))
        c4 == InitAssign(v, c3, s[4], ans(s[4]))
    IN InitAssign(v, c4, s[5], ans(s[5]))

---------------------------------------------------------------------------
(* Quote Requester: getQuote and getSwapQuote *)

QuoteResponses == [id : QuoteIds, expiration : Times]
NoQuoteResponse == [id |-> 0, expiration |-> 0]

FreeQuoteCall ==
    [op |-> "none", pc |-> "free", size |-> Num(0), symbol |-> "",
     side |-> "", clientAsset |-> "", dealerAsset |-> "",
     initAtCall |-> FALSE, pairsAtCall |-> {}, nreq |-> 0, endpoint |-> "",
     err |-> "", result |-> NoQuoteResponse]

Settled(call) == call.pc \in {"resolved", "rejected"}

\* the template strings of getSwapQuote
PairOf(base, quote) == base \o "/" \o quote

\* getQuote with the side asserted before the initialized flag
MutGetQuoteCheck_SideFirst(c, size, symbol, side) ==
    IF ~(side = "bid" \/ side = "ask") THEN ErrSide
    ELSE IF ~c.initialized THEN ErrNotInitialized
    ELSE IF symbol \notin c.pairs THEN ErrUnsupportedPair
    ELSE IF TypeOf(size) # "number" THEN ErrSizeType
    ELSE ""

\* getQuote without the assertion on the pairs list
MutGetQuoteCheck_NoPairs(c, size, symbol, side) ==
    IF ~c.initialized THEN ErrNotInitialized
    ELSE IF ~(side = "bid" \/ side = "ask") THEN ErrSide
    ELSE IF TypeOf(size) # "number" THEN ErrSizeType
    ELSE ""

\* the assertions of getQuote, in order: the message of the first that
\* fails, "" when all pass
GetQuoteCheck(c, size, symbol, side) ==
    IF ~c.initialized THEN ErrNotInitialized
    ELSE IF ~(side = "bid" \/ side = "ask") THEN ErrSide
    ELSE IF symbol \notin c.pairs THEN ErrUnsupportedPair
    ELSE IF TypeOf(size) # "number" THEN ErrSizeType
    ELSE ""

\* getSwapQuote testing one ordering of the assets only
MutGetSwapQuoteCheck_OneOrdering(c, size, clientAsset, dealerAsset) ==
    IF ~c.initialized THEN ErrNotInitialized
    ELSE IF TypeOf(size) # "number" THEN ErrSizeType
    ELSE IF PairOf(dealerAsset, clientAsset) \notin c.pairs
         THEN ErrUnsupportedMarket
    ELSE ""

\* the assertions of getSwapQuote, in order
GetSwapQuoteCheck(c, size, clientAsset, dealerAsset) ==
    LET dealerBase == PairOf(dealerAsset, clientAsset)
        clientBase == PairOf(clientAsset, dealerAsset)
    IN IF ~c.initialized THEN ErrNotInitialized
       ELSE IF TypeOf(size) # "number" THEN ErrSizeType
       ELSE IF ~(dealerBase \in c.pairs \/ clientBase \in c.pairs)
            THEN ErrUnsupportedMarket
       ELSE ""

\* a failed request sent again instead of surfaced
MutOnQuoteRequestFailure_Retry(call, e) == [call EXCEPT !.nreq = @ + 1]

\* _call -> _callAny: one axios request; a rejection of it propagates
OnQuoteRequestFailure(call, e) == [call EXCEPT !.pc = "rejected", !.err = e]

\* the call record after the synchronous part of getQuote/getSwapQuote
QuoteCallAfterCheck(call, e, endpoint) ==
    IF e # "" THEN [call EXCEPT !.pc = "rejected", !.err = e]
    ELSE [call EXCEPT !.pc = "request", !.nreq = @ + 1, !.endpoint = endpoint]

---------------------------------------------------------------------------
(* Order Signer and Settlement Submitter: handleTrade *)

\* the market of the maker order inside quote q (its maker and taker asset
\* data): odd quotes are for WETH/DAI, even ones for ZRX/WETH
OrderPair(q) == IF q % 2 = 1 THEN "WETH/DAI" ELSE "ZRX/WETH"

(* The quotes a caller holds.  Quote q was issued with expiration 1; the   *)
(* maker order inside it carries its own expirationTimeSeconds, q, and the *)
(* assets of one market.                                                   *)
QuoteInputs ==
    {[id |-> q, expiration |-> 1, orderExpiration |-> q,
      pair |-> OrderPair(q)] : q \in QuoteIds}
NoQuoteInput == [id |-> 0, expiration |-> 0, orderExpiration |-> 0, pair |-> ""]

\* generatePseudoRandomSalt(): any value of the salt space; the salt is a
\* local of handleTrade and is gone once the promise has settled
Salts == {"salt-a", "salt-b"}

\* an absolute timestamp lies in the past at time t
HasPassed(expiration, t) == expiration < t

FreeTradeCall ==
    [pc |-> "free", quote |-> NoQuoteInput, salt |-> "", signer |-> "",
     address |-> "", nsign |-> 0, npost |-> 0, expiredAtCall |-> FALSE,
     resubmit |-> FALSE, err |-> "",
     txId |-> 0, result |-> << >>]

ErrOrderExpired == "order expired"
ErrConvert == "conversion failed"

(* createAndSignZeroExTransaction is imported from the package index and   *)
(* is not part of the sources: its validation step follows section 4.3 of  *)
(* the specification (the order must not be expired).                      *)
CreateAndSignCheck(q, t) ==
    IF HasPassed(q.orderExpiration, t) THEN ErrOrderExpired ELSE ""

(* The synchronous part of handleTrade, up to its first await.             *)
(* v3 (lines 320-332): read contractWrappers.exchange.address, then call   *)
(* createAndSignZeroExTransaction inside try/catch.                        *)
(* v1 (lines 827-846): encode the fill, draw the salt, hash, and ask the   *)
(* provider for the signature.                                             *)
HandleTradeBegin(v, c, call, t, salt) ==
    IF ~c.contractWrappers
    THEN [call EXCEPT !.pc = "rejected", !.err = ErrTypeError]
    ELSE IF v = "v3" /\ CreateAndSignCheck(call.quote, t) # ""
    THEN [call EXCEPT !.pc = "rejected",
                      !.err = ErrSignPrefix \o CreateAndSignCheck(call.quote, t)]
    ELSE [call EXCEPT !.pc = "signing", !.salt = salt,
                      !.signer = c.coinbase, !.nsign = @ + 1]

(* The order POST is sent: _call("order", "POST", req).  In v1 req is     *)
(* built after the signature is back, with address: this.coinbase as it   *)
(* is then (line 854); in v3 req is made from the signed transaction.     *)
PostOrder(v, c, call, done) ==
    [call EXCEPT !.pc = "posting", !.npost = @ + 1,
                 !.address = IF v = "v1" THEN c.coinbase ELSE call.signer,
                 !.resubmit = (call.quote.id \in done)]

\* the provider has signed: v3 goes on to convert (line 338), v1 to POST
AfterSigned(v, c, call, done) ==
    IF v = "v3" THEN [call EXCEPT !.pc = "converting"]
    ELSE PostOrder(v, c, call, done)

\* a signing failure reported without its cause
MutAfterSignRejected_NoCause(v, call, e) ==
    [call EXCEPT !.pc = "rejected", !.salt = "", !.signer = "",
                 !.address = "", !.err = ErrSignPrefix]

\* the provider refused: v3 wraps the error (line 334), v1 lets it through
AfterSignRejected(v, call, e) ==
    [call EXCEPT !.pc = "rejected", !.salt = "", !.signer = "", !.address = "",
                 !.err = IF v = "v3" THEN ErrSignPrefix \o e ELSE e]

\* the catch around the submission (v3 line 342, v1 line 861)
AfterSubmitFailed(call, e) ==
    [call EXCEPT !.pc = "rejected", !.salt = "", !.signer = "",
                 !.address = "", !.err = ErrSubmitPrefix \o e]

(* The kind of an error handleTrade throws: both catch blocks throw a      *)
(* plain Error whose message is a fixed head followed by the message of    *)
(* the cause (v3 lines 334, 342; v1 line 861), so the head is all that     *)
(* tells one kind from another.                                            *)
ErrorKind(err) ==
    IF err \in {ErrSubmitPrefix \o e : e \in {ErrTransport, ErrHttpStatus, ErrConvert}}
    THEN ErrSubmitPrefix
    ELSE IF err \in {ErrSignPrefix \o e : e \in {ErrProvider, ErrOrderExpired}}
    THEN ErrSignPrefix
    ELSE err

\* the lowest free slot: the executions are interchangeable
FirstFree(calls, ids) ==
    CHOOSE i \in ids : calls[i].pc = "free"
                       /\ \A j \in ids : calls[j].pc = "free" => i <= j

---------------------------------------------------------------------------
(* Allowance Manager: hasAllowance and setAllowance; the chain *)

\* MAX_ALLOWANCE = 2^256 - 1, at the width of the model
MAX_ALLOWANCE == 2 ^ AllowanceBits - 1
Allowances == 0..MAX_ALLOWANCE

\* a transaction id of the chain: not yet used, pending, or mined
UnusedTx == [status |-> "unused", token |-> ""]

\* the transaction id the next broadcast gets
FirstUnused(t) ==
    IF \E i \in TxIds : t[i].status = "unused"
    THEN CHOOSE i \in TxIds : t[i].status = "unused"
                              /\ \A j \in TxIds : t[j].status = "unused" => i <= j
    ELSE 0

FreeAllowCall ==
    [op |-> "none", pc |-> "free", ticker |-> "", token |-> "", read |-> 0,
     result |-> FALSE, tx |-> 0, afterSet |-> FALSE, initAtCall |-> FALSE,
     nchain |-> 0, err |-> ""]

\* property names every JavaScript object inherits from Object.prototype
InheritedNames == {"constructor"}

(* this.tokens[ticker] (line 554): tokens is the parsed body of the assets *)
(* response, a plain object, so the lookup also finds inherited            *)
(* properties; "" stands for undefined.                                    *)
TokenLookup(c, ticker) ==
    IF ticker \in DOMAIN c.tokens THEN c.tokens[ticker]
    ELSE IF ticker \in InheritedNames THEN "function Object"
    ELSE ""

\* _getAddress: the lookup in this.tokens and its assertion
GetAddressCheck(c, ticker) ==
    IF ~c.tokensDefined THEN ErrTypeError
    ELSE IF TokenLookup(c, ticker) = "" THEN ErrUnsupportedTicker
    ELSE ""

\* a plain nonzero check in place of the threshold
MutHasAllowanceV3_NonZero(a) == a > 0

\* v3 (line 371): allowance.isGreaterThan(2^255)
HasAllowanceV3(a) == a > 2 ^ (AllowanceBits - 1)

\* the v1 comparison replaced by the one of v3
MutHasAllowanceV1_SameAsV3(a) == a > 2 ^ (AllowanceBits - 1)

\* v1 (line 895): allowance.isGreaterThan(MAX_ALLOWANCE.div(2)); BigNumber
\* division is exact here, the quotient ends in .5
HasAllowanceV1(a) == 2 * a > MAX_ALLOWANCE

HasAllowanceResult(v, a) ==
    IF v = "v3" THEN HasAllowanceV3(a) ELSE HasAllowanceV1(a)

\* the call record after the synchronous part of hasAllowance/setAllowance
AllowCallBegin(c, call, ticker, pc) ==
    LET e == GetAddressCheck(c, ticker)
    IN IF e # "" THEN [call EXCEPT !.pc = "rejected", !.err = e]
       ELSE [call EXCEPT !.pc = pc, !.token = TokenLookup(c, ticker),
                         !.nchain = @ + 1]

\* an approval of 2^255 in place of 2^256 - 1
MutApprovedAmount_Half == 2 ^ (AllowanceBits - 1)

\* the amount the approval transaction of setAllowance grants
ApprovedAmount == MAX_ALLOWANCE

\* an approval that withdraws an allowance already granted
MutAllowanceAfterMined_Toggle(al, tx, ok) ==
    IF ok /\ tx.token # ""
    THEN [al EXCEPT ![tx.token] = IF @ = 0 THEN ApprovedAmount ELSE 0]
    ELSE al

\* the chain state after transaction t is mined
AllowanceAfterMined(al, tx, ok) ==
    IF ok /\ tx.token # "" THEN [al EXCEPT ![tx.token] = ApprovedAmount]
    ELSE al

\* a wait that resolves whatever the status of the mined transaction
MutAwaitOutcome_AlwaysResolve(call, status) == [call EXCEPT !.pc = "resolved"]

\* a wait that starts over when the transaction has reverted
MutAwaitOutcome_RetryOnRevert(call, status) ==
    IF status = "success" THEN [call EXCEPT !.pc = "resolved"]
    ELSE [call EXCEPT !.nwait = @ + 1]

\* a wait that does not look at reverted transactions
MutAwaitOutcome_IgnoreRevert(call, status) ==
    IF status = "success" THEN [call EXCEPT !.pc = "resolved"] ELSE call

\* awaitTransactionSuccessAsync on a mined transaction
AwaitOutcome(call, status) ==
    IF status = "success" THEN [call EXCEPT !.pc = "resolved"]
    ELSE [call EXCEPT !.pc = "rejected", !.err = ErrReverted]

---------------------------------------------------------------------------
(* Confirmation Waiter: waitForTransactionSuccessOrThrow *)

(* A transaction id is a string, here a sequence of characters.  The code  *)
(* asks for 64 hexadecimal digits after "0x"; the model asks for           *)
(* TxIdHexDigits of them.                                                  *)
TxIdHexDigits == 2

HexDigits ==
    {"0", "1", "2", "3", "4", "5", "6", "7", "8", "9",
     "a", "b", "c", "d", "e", "f", "A", "B", "C", "D", "E", "F"}

\* the value `undefined`, and what a regular expression sees of a value
Undefined == <<"undefined">>
StringOf(x) ==
    IF x = Undefined THEN <<"u", "n", "d", "e", "f", "i", "n", "e", "d">>
    ELSE x

\* accepts any string that starts with "0x"
MutIsTxId_PrefixOnly(x) ==
    LET s == StringOf(x) IN Len(s) >= 2 /\ s[1] = "0" /\ s[2] = "x"

\* /^0x[a-fA-F0-9]{64}$/.test(txId)  (v3 line 436, v1 line 969)
IsTxId(x) ==
    LET s == StringOf(x)
    IN /\ Len(s) = 2 + TxIdHexDigits
       /\ s[1] = "0"
       /\ s[2] = "x"
       /\ \A i \in 3..Len(s) : s[i] \in HexDigits

\* the id under which the chain knows transaction t
TxIdDigit == <<"1", "a", "F", "9">>
TxIdString(t) == <<"0", "x">> \o [i \in 1..TxIdHexDigits |-> TxIdDigit[t]]

\* a well-formed id the chain never gets to know
UnknownTxId == <<"0", "x">> \o [i \in 1..TxIdHexDigits |-> "0"]

\* ids that are not well formed: too short, too long, a digit that is not
\* hexadecimal, a wrong prefix, the empty string
MalformedTxIds ==
    LET w == TxIdString(1)
    IN {SubSeq(w, 1, Len(w) - 1), w \o <<"a">>, [w EXCEPT ![Len(w)] = "g"],
        [w EXCEPT ![2] = "X"], << >>}

TxIdInputs == {TxIdString(t) : t \in TxIds} \cup {UnknownTxId} \cup MalformedTxIds

\* the transaction an id names on the chain, 0 when there is none
TxOfString(s) ==
    IF \E t \in TxIds : TxIdString(t) = s
    THEN CHOOSE t \in TxIds : TxIdString(t) = s
    ELSE 0

ErrInvalidTxId == "invalid transaction ID"

FreeWaitCall ==
    [pc |-> "free", txId |-> << >>, wrapperAtCall |-> FALSE, nwait |-> 0,
     err |-> ""]

\* this.web3Wrapper is set: by the constructor in v3 (line 147), by init()
\* once the provider is connected in v1 (lines 656, 685, 696)
HasWeb3Wrapper(v, c) == v = "v3" \/ c.web3

(* The synchronous part of waitForTransactionSuccessOrThrow (v3 lines      *)
(* 435-438, v1 lines 968-971): the assertion, then the call of             *)
(* web3Wrapper.awaitTransactionSuccessAsync.                               *)
WaitBegin(v, c, call) ==
    IF ~IsTxId(call.txId)
    THEN [call EXCEPT !.pc = "rejected", !.err = ErrInvalidTxId]
    ELSE IF ~HasWeb3Wrapper(v, c)
    THEN [call EXCEPT !.pc = "rejected", !.err = ErrTypeError]
    ELSE [call EXCEPT !.pc = "waiting", !.nwait = @ + 1]

---------------------------------------------------------------------------
(* The dealer's API version *)

(* The version the client puts in the base path of every request: v3 reads *)
(* COMPATIBLE_VERSION, "3.0" (lines 81, 156); v1 writes "api/v1.0" in the  *)
(* constructor.                                                            *)
COMPATIBLE_VERSION(v) == IF v = "v3" THEN "3.0" ELSE "1.0"

\* the API versions a dealer behind dealerUrl may serve
DealerVersions == {"1.0", "2.0", "3.0"}

---------------------------------------------------------------------------
(* makeBigNumber *)

\* the largest number passed to makeBigNumber
MaxNumber == 2

\* JavaScript values that are neither a number nor a numeric string
TextString == [t |-> "string", k |-> "NaN", n |-> 0]
UndefinedValue == [t |-> "undefined", k |-> "NaN", n |-> 0]
TrueValue == [t |-> "boolean", k |-> "NaN", n |-> 0]

BigNumberInputs ==
    {Num(n) : n \in 0..MaxNumber} \cup {Str(n) : n \in 0..MaxNumber}
        \cup {NaN, PosInfinity, TextString, UndefinedValue, TrueValue}

(* new BigNumber(n): the value of a number or of a numeric string; NaN for *)
(* any value that does not read as a number.                               *)
BigNumberOf(x) ==
    IF TypeOf(x) \in {"number", "string"}
    THEN [k |-> x.k, n |-> x.n]
    ELSE [k |-> "NaN", n |-> 0]

NoBigNumber == [k |-> "none", n |-> 0]

ErrBigNumber(v) ==
    IF v = "v3" THEN "\"n\" must be a number or string number"
    ELSE "n must be a number or string number"

FreeBigNumberCall ==
    [pc |-> "free", arg |-> Num(0), err |-> "", result |-> NoBigNumber]

(* makeBigNumber (v3 lines 452-455, v1 lines 985-988):                     *)
(* assert(typeof n === "number" || typeof n !== "string"), then            *)
(* new BigNumber(n).                                                       *)
MakeBigNumberResult(v, x) ==
    IF ~(TypeOf(x) = "number" \/ TypeOf(x) # "string")
    THEN [pc |-> "rejected", arg |-> x, err |-> ErrBigNumber(v),
          result |-> NoBigNumber]
    ELSE [pc |-> "resolved", arg |-> x, err |-> "",
          result |-> BigNumberOf(x)]

---------------------------------------------------------------------------
(* Actions *)

Init ==
    /\ version \in Versions
    /\ client = NewClient(version)
    /\ initPc = "idle"
    /\ quoteCall = FreeQuoteCall
    /\ tradeCalls = [i \in TradeCallIds |-> FreeTradeCall]
    /\ allowCall = FreeAllowCall
    /\ approved = {}
    /\ now = 0
    /\ submitted = {}
    /\ allowance = [a \in TokenAddresses |-> 0]
    /\ txs = [t \in TxIds |-> UnusedTx]
    /\ waitCall = FreeWaitCall
    /\ sufficient = {}
    /\ dealerVersion = COMPATIBLE_VERSION(version)
    /\ bigNumberCall = FreeBigNumberCall

(* An initialized session in front of any chain state: the allowances the *)
(* taker has granted before are whatever the chain holds.                  *)
InitReady ==
    /\ version \in Versions
    /\ \E m \in MarketLists : client = ClientAfterInit(version, m)
    /\ initPc = "idle"
    /\ quoteCall = FreeQuoteCall
    /\ tradeCalls = [i \in TradeCallIds |-> FreeTradeCall]
    /\ allowCall = FreeAllowCall
    /\ approved = {}
    /\ now = 0
    /\ submitted = {}
    /\ allowance \in [TokenAddresses -> Allowances]
    /\ txs = [t \in TxIds |-> UnusedTx]
    /\ waitCall = FreeWaitCall
    /\ sufficient = {}
    /\ dealerVersion = COMPATIBLE_VERSION(version)
    /\ bigNumberCall = FreeBigNumberCall

(* An initialized session in front of a chain on which the taker has     *)
(* granted nothing yet.                                                    *)
InitSession ==
    /\ version \in Versions
    /\ \E m \in MarketLists : client = ClientAfterInit(version, m)
    /\ initPc = "idle"
    /\ quoteCall = FreeQuoteCall
    /\ tradeCalls = [i \in TradeCallIds |-> FreeTradeCall]
    /\ allowCall = FreeAllowCall
    /\ approved = {}
    /\ now = 0
    /\ submitted = {}
    /\ allowance = [a \in TokenAddresses |-> 0]
    /\ txs = [t \in TxIds |-> UnusedTx]
    /\ waitCall = FreeWaitCall
    /\ sufficient = {}
    /\ dealerVersion = COMPATIBLE_VERSION(version)
    /\ bigNumberCall = FreeBigNumberCall

\* init() is called: it runs to its first await
InitStart ==
    /\ initPc = "idle"
    /\ initPc' = InitAwaits(version)[1]
    /\ UNCHANGED <<waitCall, sufficient, dealerVersion, bigNumberCall>>
    /\ UNCHANGED <<version, client, quoteCall, tradeCalls, allowCall,
                   approved, now, submitted, allowance, txs>>

\* the await init() is suspended at resolves
InitResolve(val) ==
    /\ initPc # "idle"
    /\ val \in InitAnswers(initPc) \cup SwitchedAnswers(initPc)
    /\ client' = InitAssign(version, client, initPc, val)
    /\ initPc' = NextInitAwait(version, client, initPc)
    /\ UNCHANGED <<waitCall, sufficient, dealerVersion, bigNumberCall>>
    /\ UNCHANGED <<version, quoteCall, tradeCalls, allowCall, approved,
                   now, submitted, allowance, txs>>

\* the await init() is suspended at rejects: init() rejects
InitReject ==
    /\ initPc # "idle"
    /\ initPc' = "idle"
    /\ UNCHANGED <<waitCall, sufficient, dealerVersion, bigNumberCall>>
    /\ UNCHANGED <<version, client, quoteCall, tradeCalls, allowCall,
                   approved, now, submitted, allowance, txs>>

\* getQuote is called: its assertions, then the request (lines 228-241)
GetQuote(size, symbol, side) ==
    /\ quoteCall.pc = "free"
    /\ LET call == [FreeQuoteCall EXCEPT
                        !.op = "getQuote", !.size = size, !.symbol = symbol,
                        !.side = side, !.initAtCall = client.initialized,
                        !.pairsAtCall = client.pairs]
           e == GetQuoteCheck(client, size, symbol, side)
       IN quoteCall' = QuoteCallAfterCheck(call, e, "quote")
    /\ UNCHANGED <<waitCall, sufficient, dealerVersion, bigNumberCall>>
    /\ UNCHANGED <<version, client, initPc, tradeCalls, allowCall,
                   approved, now, submitted, allowance, txs>>

\* getSwapQuote is called: its assertions, then the request (lines 271-288)
GetSwapQuote(size, clientAsset, dealerAsset) ==
    /\ quoteCall.pc = "free"
    /\ LET call == [FreeQuoteCall EXCEPT
                        !.op = "getSwapQuote", !.size = size,
                        !.clientAsset = clientAsset,
                        !.dealerAsset = dealerAsset,
                        !.initAtCall = client.initialized,
                        !.pairsAtCall = client.pairs]
           e == GetSwapQuoteCheck(client, size, clientAsset, dealerAsset)
       IN quoteCall' = QuoteCallAfterCheck(call, e, "swap")
    /\ UNCHANGED <<waitCall, sufficient, dealerVersion, bigNumberCall>>
    /\ UNCHANGED <<version, client, initPc, tradeCalls, allowCall,
                   approved, now, submitted, allowance, txs>>

\* the dealer answers the request: the call returns response.data
QuoteRespond(q) ==
    /\ quoteCall.pc = "request"
    /\ quoteCall' = [quoteCall EXCEPT !.pc = "resolved", !.result = q]
    /\ UNCHANGED <<waitCall, sufficient, dealerVersion, bigNumberCall>>
    /\ UNCHANGED <<version, client, initPc, tradeCalls, allowCall,
                   approved, now, submitted, allowance, txs>>

\* the request fails (no response, or a non-2xx status)
QuoteFail(e) ==
    /\ quoteCall.pc = "request"
    /\ quoteCall' = OnQuoteRequestFailure(quoteCall, e)
    /\ UNCHANGED <<waitCall, sufficient, dealerVersion, bigNumberCall>>
    /\ UNCHANGED <<version, client, initPc, tradeCalls, allowCall,
                   approved, now, submitted, allowance, txs>>

\* the caller has taken the outcome of the settled promise
QuoteReturn ==
    /\ Settled(quoteCall)
    /\ quoteCall' = FreeQuoteCall
    /\ UNCHANGED <<waitCall, sufficient, dealerVersion, bigNumberCall>>
    /\ UNCHANGED <<version, client, initPc, tradeCalls, allowCall,
                   approved, now, submitted, allowance, txs>>

\* handleTrade is called with a quote the caller holds
HandleTrade(q, salt) ==
    /\ \E i \in TradeCallIds : tradeCalls[i].pc = "free"
    /\ LET i == FirstFree(tradeCalls, TradeCallIds)
           call == [FreeTradeCall EXCEPT
                        !.quote = q,
                        !.expiredAtCall = HasPassed(q.expiration, now)]
       IN tradeCalls' =
            [tradeCalls EXCEPT
                ![i] = HandleTradeBegin(version, client, call, now, salt)]
    /\ UNCHANGED <<waitCall, sufficient, dealerVersion, bigNumberCall>>
    /\ UNCHANGED <<version, client, initPc, quoteCall, allowCall, approved,
                   now, submitted, allowance, txs>>

\* the signing provider returns the signature
SignResolve(i) ==
    /\ tradeCalls[i].pc = "signing"
    /\ tradeCalls' =
         [tradeCalls EXCEPT ![i] = AfterSigned(version, client, @, submitted)]
    /\ UNCHANGED <<waitCall, sufficient, dealerVersion, bigNumberCall>>
    /\ UNCHANGED <<version, client, initPc, quoteCall, allowCall, approved,
                   now, submitted, allowance, txs>>

\* the signing provider rejects (the user declines)
SignReject(i) ==
    /\ tradeCalls[i].pc = "signing"
    /\ tradeCalls' =
         [tradeCalls EXCEPT ![i] = AfterSignRejected(version, @, ErrProvider)]
    /\ UNCHANGED <<waitCall, sufficient, dealerVersion, bigNumberCall>>
    /\ UNCHANGED <<version, client, initPc, quoteCall, allowCall, approved,
                   now, submitted, allowance, txs>>

\* v3: convertZeroExTransactionToDealerFill resolves, the POST is sent
ConvertResolve(i) ==
    /\ tradeCalls[i].pc = "converting"
    /\ tradeCalls' = [tradeCalls EXCEPT ![i] = PostOrder(version, client, @, submitted)]
    /\ UNCHANGED <<waitCall, sufficient, dealerVersion, bigNumberCall>>
    /\ UNCHANGED <<version, client, initPc, quoteCall, allowCall, approved,
                   now, submitted, allowance, txs>>

\* v3: convertZeroExTransactionToDealerFill rejects
ConvertReject(i) ==
    /\ tradeCalls[i].pc = "converting"
    /\ tradeCalls' = [tradeCalls EXCEPT ![i] = AfterSubmitFailed(@, ErrConvert)]
    /\ UNCHANGED <<waitCall, sufficient, dealerVersion, bigNumberCall>>
    /\ UNCHANGED <<version, client, initPc, quoteCall, allowCall, approved,
                   now, submitted, allowance, txs>>

(* The dealer settles the order: it broadcasts transaction t and answers   *)
(* {txId: t}.  A dealer refuses a quote it has already consumed            *)
(* (specification, section 4.4).                                           *)
DealerAccept(i, t) ==
    /\ tradeCalls[i].pc = "posting"
    /\ tradeCalls[i].quote.id \notin submitted
    /\ t = FirstUnused(txs)
    /\ tradeCalls' =
         [tradeCalls EXCEPT ![i] = [@ EXCEPT !.pc = "resolved", !.salt = "",
                                       !.signer = "", !.address = "",
                                       !.txId = t,
                                       !.result = TxIdString(t)]]
    /\ submitted' = submitted \cup {tradeCalls[i].quote.id}
    /\ txs' = [txs EXCEPT ![t] = [status |-> "pending", token |-> ""]]
    /\ UNCHANGED <<waitCall, sufficient, dealerVersion, bigNumberCall>>
    /\ UNCHANGED <<version, client, initPc, quoteCall, allowCall, approved,
                   now, allowance>>

\* what a dealer can put in place of a transaction id
BadTxIdAnswers == {Undefined, SubSeq(TxIdString(1), 1, 1 + TxIdHexDigits)}

(* The dealer answers the order POST with a 2xx status and a body whose    *)
(* txId is missing or malformed: handleTrade destructures the body and     *)
(* returns what it finds (v3 lines 339-340, v1 lines 858-859).             *)
DealerAnswerMalformed(i, r) ==
    /\ tradeCalls[i].pc = "posting"
    /\ tradeCalls' =
         [tradeCalls EXCEPT ![i] = [@ EXCEPT !.pc = "resolved", !.salt = "",
                                             !.signer = "", !.address = "",
                                             !.result = r]]
    /\ UNCHANGED <<waitCall, sufficient, dealerVersion, bigNumberCall>>
    /\ UNCHANGED <<version, client, initPc, quoteCall, allowCall, approved,
                   now, submitted, allowance, txs>>

\* the POST fails: the dealer rejects it, or the transport does
PostFail(i, e) ==
    /\ tradeCalls[i].pc = "posting"
    /\ tradeCalls' = [tradeCalls EXCEPT ![i] = AfterSubmitFailed(@, e)]
    /\ UNCHANGED <<waitCall, sufficient, dealerVersion, bigNumberCall>>
    /\ UNCHANGED <<version, client, initPc, quoteCall, allowCall, approved,
                   now, submitted, allowance, txs>>

\* the caller has taken the outcome of the settled promise
TradeReturn(i) ==
    /\ Settled(tradeCalls[i])
    /\ tradeCalls' = [tradeCalls EXCEPT ![i] = FreeTradeCall]
    /\ UNCHANGED <<waitCall, sufficient, dealerVersion, bigNumberCall>>
    /\ UNCHANGED <<version, client, initPc, quoteCall, allowCall, approved,
                   now, submitted, allowance, txs>>

\* time passes
Tick ==
    /\ now < MaxTime
    /\ now' = now + 1
    /\ UNCHANGED <<waitCall, sufficient, dealerVersion, bigNumberCall>>
    /\ UNCHANGED <<version, client, initPc, quoteCall, tradeCalls,
                   allowCall, approved, submitted, allowance, txs>>


\* hasAllowance is called (v3 lines 365-367, v1 lines 884-891)
HasAllowance(ticker) ==
    /\ allowCall.pc = "free"
    /\ LET call == [FreeAllowCall EXCEPT
                        !.op = "hasAllowance", !.ticker = ticker,
                        !.afterSet = (ticker \in approved),
                        !.initAtCall = client.initialized]
       IN allowCall' = AllowCallBegin(client, call, ticker, "reading")
    /\ approved' = approved \ {ticker}
    /\ UNCHANGED <<waitCall, sufficient, dealerVersion, bigNumberCall>>
    /\ UNCHANGED <<version, client, initPc, quoteCall, tradeCalls, now,
                   submitted, allowance, txs>>

\* the chain answers the allowance read; the comparison decides
AllowanceRead ==
    /\ allowCall.pc = "reading"
    /\ allowCall.token \in TokenAddresses
    /\ LET a == allowance[allowCall.token]
       IN /\ allowCall' =
            [allowCall EXCEPT !.pc = "resolved", !.read = a,
                              !.result = HasAllowanceResult(version, a)]
       /\ sufficient' = IF HasAllowanceResult(version, a)
                        THEN sufficient \cup {allowCall.ticker}
                        ELSE sufficient
    /\ UNCHANGED <<waitCall, dealerVersion, bigNumberCall>>
    /\ UNCHANGED <<version, client, initPc, quoteCall, tradeCalls, approved,
                   now, submitted, allowance, txs>>

\* the allowance read fails
AllowanceReadFail ==
    /\ allowCall.pc = "reading"
    /\ allowCall' = [allowCall EXCEPT !.pc = "rejected", !.err = ErrProvider]
    /\ UNCHANGED <<waitCall, sufficient, dealerVersion, bigNumberCall>>
    /\ UNCHANGED <<version, client, initPc, quoteCall, tradeCalls, approved,
                   now, submitted, allowance, txs>>

\* setAllowance is called (v3 lines 399-403, v1 lines 923-931)
SetAllowance(ticker) ==
    /\ allowCall.pc = "free"
    /\ LET call == [FreeAllowCall EXCEPT
                        !.op = "setAllowance", !.ticker = ticker,
                        !.afterSet = (ticker \in approved),
                        !.initAtCall = client.initialized]
       IN allowCall' = AllowCallBegin(client, call, ticker, "approving")
    /\ UNCHANGED <<waitCall, sufficient, dealerVersion, bigNumberCall>>
    /\ UNCHANGED <<version, client, initPc, quoteCall, tradeCalls, approved,
                   now, submitted, allowance, txs>>

\* the approval transaction is broadcast: setAllowance goes on to wait
ApproveSent(t) ==
    /\ allowCall.pc = "approving"
    /\ allowCall.token \in TokenAddresses
    /\ t = FirstUnused(txs)
    /\ txs' = [txs EXCEPT ![t] = [status |-> "pending",
                                  token |-> allowCall.token]]
    /\ allowCall' = [allowCall EXCEPT !.pc = "mining", !.tx = t]
    /\ UNCHANGED <<waitCall, sufficient, dealerVersion, bigNumberCall>>
    /\ UNCHANGED <<version, client, initPc, quoteCall, tradeCalls, approved,
                   now, submitted, allowance>>

\* the provider refuses to send the approval transaction
ApproveReject ==
    /\ allowCall.pc = "approving"
    /\ allowCall' = [allowCall EXCEPT !.pc = "rejected", !.err = ErrProvider]
    /\ UNCHANGED <<waitCall, sufficient, dealerVersion, bigNumberCall>>
    /\ UNCHANGED <<version, client, initPc, quoteCall, tradeCalls, approved,
                   now, submitted, allowance, txs>>

\* the chain mines a pending transaction, successfully or not
Mine(t, ok) ==
    /\ txs[t].status = "pending"
    /\ txs' = [txs EXCEPT ![t].status = IF ok THEN "success" ELSE "reverted"]
    /\ allowance' = AllowanceAfterMined(allowance, txs[t], ok)
    /\ UNCHANGED <<waitCall, sufficient, dealerVersion, bigNumberCall>>
    /\ UNCHANGED <<version, client, initPc, quoteCall, tradeCalls, allowCall,
                   approved, now, submitted>>

\* setAllowance's awaitTransactionSuccessAsync sees the mined transaction
AwaitApproval ==
    /\ allowCall.pc = "mining"
    /\ txs[allowCall.tx].status \in {"success", "reverted"}
    /\ allowCall' = AwaitOutcome(allowCall, txs[allowCall.tx].status)
    /\ approved' = IF txs[allowCall.tx].status = "success"
                   THEN approved \cup {allowCall.ticker} ELSE approved
    /\ UNCHANGED <<waitCall, sufficient, dealerVersion, bigNumberCall>>
    /\ UNCHANGED <<version, client, initPc, quoteCall, tradeCalls, now,
                   submitted, allowance, txs>>

\* the provider fails while setAllowance polls for the receipt
AwaitApprovalFail ==
    /\ allowCall.pc = "mining"
    /\ allowCall' = [allowCall EXCEPT !.pc = "rejected", !.err = ErrProvider]
    /\ UNCHANGED <<waitCall, sufficient, dealerVersion, bigNumberCall>>
    /\ UNCHANGED <<version, client, initPc, quoteCall, tradeCalls, approved,
                   now, submitted, allowance, txs>>

\* the caller has taken the outcome of the settled promise
AllowReturn ==
    /\ Settled(allowCall)
    /\ allowCall' = FreeAllowCall
    /\ UNCHANGED <<waitCall, sufficient, dealerVersion, bigNumberCall>>
    /\ UNCHANGED <<version, client, initPc, quoteCall, tradeCalls, approved,
                   now, submitted, allowance, txs>>

\* waitForTransactionSuccessOrThrow is called (v3 lines 435-438)
WaitForTransaction(s) ==
    /\ waitCall.pc = "free"
    /\ LET call == [FreeWaitCall EXCEPT
                        !.txId = s,
                        !.wrapperAtCall = HasWeb3Wrapper(version, client)]
       IN waitCall' = WaitBegin(version, client, call)
    /\ UNCHANGED <<sufficient, dealerVersion, bigNumberCall>>
    /\ UNCHANGED <<version, client, initPc, quoteCall, tradeCalls, allowCall,
                   approved, now, submitted, allowance, txs>>

\* a poll finds the receipt of the mined transaction
WaitObserve ==
    /\ waitCall.pc = "waiting"
    /\ TxOfString(waitCall.txId) # 0
    /\ txs[TxOfString(waitCall.txId)].status \in {"success", "reverted"}
    /\ waitCall' = AwaitOutcome(waitCall, txs[TxOfString(waitCall.txId)].status)
    /\ UNCHANGED <<sufficient, dealerVersion, bigNumberCall>>
    /\ UNCHANGED <<version, client, initPc, quoteCall, tradeCalls, allowCall,
                   approved, now, submitted, allowance, txs>>

\* the provider fails while the wait polls for the receipt
WaitFail ==
    /\ waitCall.pc = "waiting"
    /\ waitCall' = [waitCall EXCEPT !.pc = "rejected", !.err = ErrProvider]
    /\ UNCHANGED <<sufficient, dealerVersion, bigNumberCall>>
    /\ UNCHANGED <<version, client, initPc, quoteCall, tradeCalls, allowCall,
                   approved, now, submitted, allowance, txs>>

\* the caller has taken the outcome of the settled promise
WaitReturn ==
    /\ Settled(waitCall)
    /\ waitCall' = FreeWaitCall
    /\ UNCHANGED <<sufficient, dealerVersion, bigNumberCall>>
    /\ UNCHANGED <<version, client, initPc, quoteCall, tradeCalls, allowCall,
                   approved, now, submitted, allowance, txs>>

\* handleTrade is called while no other handleTrade execution is under way
HandleTradeAlone(q, salt) ==
    /\ \A i \in TradeCallIds : tradeCalls[i].pc = "free"
    /\ HandleTrade(q, salt)

(* A session in front of a dealer of any API version.                      *)
InitAnyDealer ==
    /\ version \in Versions
    /\ client = NewClient(version)
    /\ initPc = "idle"
    /\ quoteCall = FreeQuoteCall
    /\ tradeCalls = [i \in TradeCallIds |-> FreeTradeCall]
    /\ allowCall = FreeAllowCall
    /\ approved = {}
    /\ now = 0
    /\ submitted = {}
    /\ allowance = [a \in TokenAddresses |-> 0]
    /\ txs = [t \in TxIds |-> UnusedTx]
    /\ waitCall = FreeWaitCall
    /\ sufficient = {}
    /\ dealerVersion \in DealerVersions
    /\ bigNumberCall = FreeBigNumberCall

\* makeBigNumber is called: it is synchronous and runs to its end
MakeBigNumber(n) ==
    /\ bigNumberCall' = MakeBigNumberResult(version, n)
    /\ UNCHANGED <<version, client, initPc, quoteCall, tradeCalls, allowCall,
                   approved, now, submitted, allowance, txs, waitCall,
                   sufficient, dealerVersion>>

InitNext ==
    \/ InitStart
    \/ \E val \in UNION {InitAnswers(pc) : pc \in {initPc} \ {"idle"}} :
          InitResolve(val)
    \/ InitReject

\* init() reads the accounts after the user has switched
AccountSwitchNext ==
    \E val \in UNION {SwitchedAnswers(pc) : pc \in {initPc} \ {"idle"}} :
        InitResolve(val)

QuoteNext ==
    \/ \E size \in SizeInputs, symbol \in Symbols, side \in Sides :
          GetQuote(size, symbol, side)
    \/ \E size \in SizeInputs, ca \in Tickers, da \in Tickers :
          GetSwapQuote(size, ca, da)
    \/ \E q \in QuoteResponses : QuoteRespond(q)
    \/ \E e \in {ErrTransport, ErrHttpStatus} : QuoteFail(e)
    \/ QuoteReturn

TradeNext ==
    \/ \E q \in QuoteInputs, salt \in Salts : HandleTrade(q, salt)
    \/ \E i \in TradeCallIds : SignResolve(i)
    \/ \E i \in TradeCallIds : SignReject(i)
    \/ \E i \in TradeCallIds : ConvertResolve(i)
    \/ \E i \in TradeCallIds : ConvertReject(i)
    \/ \E i \in TradeCallIds, t \in TxIds : DealerAccept(i, t)
    \/ \E i \in TradeCallIds, e \in {ErrTransport, ErrHttpStatus} :
          PostFail(i, e)
    \/ \E i \in TradeCallIds : TradeReturn(i)
    \/ Tick

AllowNext ==
    \/ \E ticker \in Tickers : HasAllowance(ticker)
    \/ AllowanceRead
    \/ AllowanceReadFail
    \/ \E ticker \in Tickers : SetAllowance(ticker)
    \/ \E t \in TxIds : ApproveSent(t)
    \/ ApproveReject
    \/ \E t \in TxIds, ok \in BOOLEAN : Mine(t, ok)
    \/ AwaitApproval
    \/ AwaitApprovalFail
    \/ AllowReturn

\* the allowance methods called with an inherited property name
InheritedNameNext ==
    \/ \E ticker \in InheritedNames : HasAllowance(ticker)
    \/ \E ticker \in InheritedNames : SetAllowance(ticker)

SpecQuote == Init /\ [][InitNext \/ QuoteNext]_vars

SpecTrade == Init /\ [][InitNext \/ TradeNext]_vars

SpecAllow == Init /\ [][InitNext \/ AllowNext]_vars

HasAllowanceNext ==
    \/ \E ticker \in Tickers : HasAllowance(ticker)
    \/ AllowanceRead
    \/ AllowanceReadFail
    \/ AllowReturn

SpecHasAllowance == InitReady /\ [][HasAllowanceNext]_vars

\* handleTrade executions one after the other
TradeAloneNext ==
    \/ \E q \in QuoteInputs, salt \in Salts : HandleTradeAlone(q, salt)
    \/ \E i \in TradeCallIds : SignResolve(i)
    \/ \E i \in TradeCallIds : SignReject(i)
    \/ \E i \in TradeCallIds : ConvertResolve(i)
    \/ \E i \in TradeCallIds : ConvertReject(i)
    \/ \E i \in TradeCallIds, t \in TxIds : DealerAccept(i, t)
    \/ \E i \in TradeCallIds, r \in BadTxIdAnswers : DealerAnswerMalformed(i, r)
    \/ \E i \in TradeCallIds, e \in {ErrTransport, ErrHttpStatus} :
          PostFail(i, e)
    \/ \E i \in TradeCallIds : TradeReturn(i)

SpecTradeAlone == Init /\ [][InitNext \/ TradeAloneNext \/ Tick]_vars

WaitNext ==
    \/ \E s \in TxIdInputs : WaitForTransaction(s)
    \/ WaitObserve
    \/ WaitFail
    \/ WaitReturn

ChainNext == \E t \in TxIds, ok \in BOOLEAN : Mine(t, ok)

(* Settlement and confirmation: a session, fresh or initialized, trades    *)
(* and waits for the transactions the dealer has broadcast.                *)
SpecConfirm ==
    (Init \/ InitSession) /\ [][TradeAloneNext \/ ChainNext \/ WaitNext]_vars

\* the polling loop of awaitTransactionSuccessAsync keeps polling
FairSpecConfirm == SpecConfirm /\ WF_vars(WaitObserve)

SpecTradeAllow ==
    InitSession /\ [][TradeAloneNext \/ AllowNext]_vars

\* quoting while time passes
SpecQuoteClock == Init /\ [][InitNext \/ QuoteNext \/ Tick]_vars

\* init() and handleTrade in front of a dealer of any version
SpecAnyDealer == InitAnyDealer /\ [][InitNext \/ TradeAloneNext]_vars

\* the allowance methods of an initialized session, with any ticker
SpecAllowNames == InitSession /\ [][AllowNext \/ InheritedNameNext]_vars

\* handleTrade and init() with a wallet whose user switches accounts
SpecTradeSwitch ==
    Init /\ [][InitNext \/ AccountSwitchNext \/ TradeAloneNext]_vars

\* makeBigNumber, callable at any point of the session's life
SpecBigNumber ==
    Init /\ [][InitNext \/ \E n \in BigNumberInputs : MakeBigNumber(n)]_vars

---------------------------------------------------------------------------
(* Properties *)

TradeCallsInUse == {i \in TradeCallIds : tradeCalls[i].pc # "free"}

\* the errors of the program that report an expired quote or order
QuoteExpiredErrors == {ErrSignPrefix \o ErrOrderExpired}

(* C1: a handleTrade called with a quote whose expiration already lies in  *)
(* the past fails with the quote-expired error, and asks the signing       *)
(* provider for nothing and POSTs no order.  (A session whose contract     *)
(* wrappers are not loaded fails before that, with the runtime's error.)   *)
C1_ExpiredQuoteFailsFast ==
    \A i \in TradeCallsInUse :
        tradeCalls[i].expiredAtCall =>
            /\ tradeCalls[i].pc = "rejected"
            /\ tradeCalls[i].err \in QuoteExpiredErrors \cup {ErrTypeError}
            /\ tradeCalls[i].nsign = 0
            /\ tradeCalls[i].npost = 0

(* C2: at most one submission per quote: no order POST is sent for a quote *)
(* id for which an earlier POST has already returned a txId.               *)
C2_NoResubmission ==
    \A i \in TradeCallsInUse :
        tradeCalls[i].npost > 0 => ~tradeCalls[i].resubmit

\* the validation of a quote call, stated on the arguments of the call and
\* on the session as it was when the call was made
SwapMarketSupported(call) ==
    \/ PairOf(call.dealerAsset, call.clientAsset) \in call.pairsAtCall
    \/ PairOf(call.clientAsset, call.dealerAsset) \in call.pairsAtCall

PassesValidation(call) ==
    /\ call.initAtCall
    /\ TypeOf(call.size) = "number"
    /\ call.op = "getQuote" =>
          call.side \in {"bid", "ask"} /\ call.symbol \in call.pairsAtCall
    /\ call.op = "getSwapQuote" => SwapMarketSupported(call)

(* C4: getQuote and getSwapQuote on a session whose init() has not         *)
(* completed fail with the not-initialized error and send no request,      *)
(* whatever the other arguments are.                                       *)
C4_NotInitializedFailsFast ==
    (quoteCall.op # "none" /\ ~quoteCall.initAtCall) =>
        /\ quoteCall.pc = "rejected"
        /\ quoteCall.err = ErrNotInitialized
        /\ quoteCall.nreq = 0

\* a swap quote with a non-number size and an unknown market, before init
C4_Witness ==
    /\ quoteCall.op = "getSwapQuote"
    /\ ~quoteCall.initAtCall
    /\ TypeOf(quoteCall.size) = "string"
    /\ ~SwapMarketSupported(quoteCall)
    /\ quoteCall.err = ErrNotInitialized

(* C5, as claimed: on an initialized session getQuote with a symbol that   *)
(* is not in the pairs list fails with the unsupported-market error and    *)
(* sends no request; a request is sent only for a symbol in the list.      *)
C5_UnsupportedSymbolError ==
    (quoteCall.op = "getQuote" /\ quoteCall.initAtCall) =>
        /\ quoteCall.symbol \notin quoteCall.pairsAtCall =>
              /\ quoteCall.pc = "rejected"
              /\ quoteCall.err = ErrUnsupportedPair
              /\ quoteCall.nreq = 0
        /\ quoteCall.nreq > 0 => quoteCall.symbol \in quoteCall.pairsAtCall

(* C5, amended: such a call always fails and sends no request; the error   *)
(* is the unsupported-market one when side is "bid" or "ask" (the side is  *)
(* asserted first); a request is sent only for a symbol in the list.       *)
C5_UnsupportedSymbolFails ==
    (quoteCall.op = "getQuote" /\ quoteCall.initAtCall) =>
        /\ quoteCall.symbol \notin quoteCall.pairsAtCall =>
              /\ quoteCall.pc = "rejected"
              /\ quoteCall.nreq = 0
              /\ quoteCall.side \in {"bid", "ask"} =>
                    quoteCall.err = ErrUnsupportedPair
              /\ quoteCall.side \notin {"bid", "ask"} =>
                    quoteCall.err = ErrSide
        /\ quoteCall.nreq > 0 => quoteCall.symbol \in quoteCall.pairsAtCall

C5_Witness ==
    /\ quoteCall.op = "getQuote"
    /\ quoteCall.initAtCall
    /\ quoteCall.symbol = "DAI/WETH"
    /\ quoteCall.symbol \notin quoteCall.pairsAtCall
    /\ quoteCall.side = "ask"
    /\ IsFinitePositive(quoteCall.size)
    /\ quoteCall.err = ErrUnsupportedPair

(* C6, as claimed: on an initialized session getSwapQuote sends a swap     *)
(* request if and only if one of the two orderings of the assets is in the *)
(* pairs list, and fails with the unsupported-market error when neither    *)
(* is.                                                                     *)
C6_SwapSentIffSupported ==
    (quoteCall.op = "getSwapQuote" /\ quoteCall.initAtCall) =>
        /\ quoteCall.nreq > 0 <=> SwapMarketSupported(quoteCall)
        /\ ~SwapMarketSupported(quoteCall) =>
              /\ quoteCall.pc = "rejected"
              /\ quoteCall.err = ErrUnsupportedMarket

(* C6, amended: the same for a size of type number; a size of another type *)
(* is refused first, with the size error, whatever the market.             *)
C6_SwapSentIffSupportedForNumber ==
    (quoteCall.op = "getSwapQuote" /\ quoteCall.initAtCall) =>
        /\ TypeOf(quoteCall.size) = "number" =>
              /\ quoteCall.nreq > 0 <=> SwapMarketSupported(quoteCall)
              /\ ~SwapMarketSupported(quoteCall) =>
                    /\ quoteCall.pc = "rejected"
                    /\ quoteCall.err = ErrUnsupportedMarket
        /\ TypeOf(quoteCall.size) # "number" =>
              /\ quoteCall.pc = "rejected"
              /\ quoteCall.err = ErrSizeType
              /\ quoteCall.nreq = 0

\* a swap of DAI for WETH while only "WETH/DAI" is supported
C6_Witness ==
    /\ quoteCall.op = "getSwapQuote"
    /\ quoteCall.initAtCall
    /\ quoteCall.clientAsset = "DAI"
    /\ quoteCall.dealerAsset = "WETH"
    /\ quoteCall.pairsAtCall = {"WETH/DAI"}
    /\ quoteCall.nreq = 1
    /\ quoteCall.endpoint = "swap"
    /\ quoteCall.pc = "resolved"

(* C7: a getQuote or getSwapQuote call that passes validation makes        *)
(* exactly one request to the dealer; when the request fails the call      *)
(* fails with that failure and no second request is made.                  *)
C7_ExactlyOneRequest ==
    /\ quoteCall.nreq <= 1
    /\ (quoteCall.op # "none" /\ PassesValidation(quoteCall)) =>
          /\ quoteCall.nreq = 1
          /\ quoteCall.pc \in {"request", "resolved", "rejected"}
          /\ quoteCall.pc = "rejected" =>
                quoteCall.err \in {ErrTransport, ErrHttpStatus}
    /\ quoteCall.err \in {ErrTransport, ErrHttpStatus} =>
          quoteCall.pc = "rejected" /\ quoteCall.nreq = 1

C7_Witness ==
    /\ quoteCall.op = "getQuote"
    /\ PassesValidation(quoteCall)
    /\ quoteCall.pc = "rejected"
    /\ quoteCall.err = ErrTransport
    /\ quoteCall.nreq = 1

(* C8: getQuote and getSwapQuote refuse, before any request, every size    *)
(* that is not a finite positive number, and send a request only for a     *)
(* finite size greater than zero.                                          *)
C8_SizeFinitePositive ==
    quoteCall.op # "none" =>
        /\ quoteCall.nreq > 0 => IsFinitePositive(quoteCall.size)
        /\ ~IsFinitePositive(quoteCall.size) => quoteCall.pc = "rejected"

\* half of the largest allowance, rounded up: 2^255 in the program
HalfAllowance == (MAX_ALLOWANCE + 1) \div 2

HasAllowanceResolved ==
    allowCall.op = "hasAllowance" /\ allowCall.pc = "resolved"

C10_FalseAtZeroTrueAfterSet ==
    HasAllowanceResolved =>
        /\ allowCall.read = 0 => ~allowCall.result
        /\ allowCall.afterSet => allowCall.result

C10_Witness ==
    /\ HasAllowanceResolved
    /\ allowCall.afterSet
    /\ allowCall.ticker = "DAI"
    /\ allowCall.result
    /\ allowance["0xWETH"] = 0

SetAllowanceCall == allowCall.op = "setAllowance"
ApprovalTx == txs[allowCall.tx]

(* C11: setAllowance first submits an approval transaction for the         *)
(* maximum allowance and only then waits on it: it is never resolved while *)
(* that transaction is pending, it is resolved only once the transaction   *)
(* is mined successfully, and it is rejected, with the revert, when the    *)
(* transaction is mined and reverted.                                      *)
C11_SetAllowanceWaitsForMining ==
    SetAllowanceCall =>
        /\ ApprovedAmount = MAX_ALLOWANCE
        /\ allowCall.pc = "mining" =>
               allowCall.tx # 0 /\ ApprovalTx.token = allowCall.token
        /\ allowCall.pc = "resolved" =>
               allowCall.tx # 0 /\ ApprovalTx.status = "success"
        /\ (allowCall.tx # 0 /\ ApprovalTx.status = "reverted"
               /\ Settled(allowCall)) => allowCall.pc = "rejected"
        /\ allowCall.err = ErrReverted => ApprovalTx.status = "reverted"

C11_Witness ==
    /\ SetAllowanceCall
    /\ allowCall.pc = "rejected"
    /\ allowCall.err = ErrReverted
    /\ ApprovalTx.status = "reverted"

(* C12: setAllowance is idempotent on the allowance: a call made when a    *)
(* setAllowance on the token has already succeeded is not refused, leaves  *)
(* the allowance at the maximum all along, and every successful call ends  *)
(* with the allowance at the maximum, as one call does.                    *)
C12_SetAllowanceIdempotent ==
    SetAllowanceCall =>
        /\ allowCall.pc = "resolved" =>
               allowance[allowCall.token] = MAX_ALLOWANCE
        /\ allowCall.afterSet =>
               /\ allowance[allowCall.token] = MAX_ALLOWANCE
               /\ allowCall.err \in {"", ErrProvider, ErrReverted}

C12_Witness ==
    /\ SetAllowanceCall
    /\ allowCall.afterSet
    /\ allowCall.pc = "resolved"
    /\ allowCall.tx = 2

WaitCalled == waitCall.pc # "free"
WaitedTx == txs[TxOfString(waitCall.txId)]
WaitedTxKnown == TxOfString(waitCall.txId) # 0

(* C13: waitForTransactionSuccessOrThrow called with an id that is not     *)
(* "0x" followed by the right number of hexadecimal digits fails with the  *)
(* invalid-transaction-id error and starts no wait on the network; a wait  *)
(* is started only for a well-formed id.                                   *)
C13_MalformedTxIdRejected ==
    (WaitCalled /\ waitCall.txId \in MalformedTxIds) =>
        /\ waitCall.pc = "rejected"
        /\ waitCall.err = ErrInvalidTxId
        /\ waitCall.nwait = 0

C13_Witness ==
    /\ waitCall.pc = "rejected"
    /\ waitCall.err = ErrInvalidTxId
    /\ waitCall.txId = [TxIdString(1) EXCEPT ![2 + TxIdHexDigits] = "g"]

WaitOnWellFormed == WaitCalled /\ waitCall.txId \notin MalformedTxIds
WaitRejectedByRevert ==
    /\ waitCall.err = ErrReverted
    /\ WaitedTxKnown
    /\ WaitedTx.status = "reverted"

(* C14, as claimed: for a well-formed id the wait produces no outcome      *)
(* while the transaction is pending or unknown, resolves only when it is   *)
(* mined and successful, rejects only when it is mined and reverted, and   *)
(* is not started a second time.                                           *)
C14_OutcomeOnlyWhenMined ==
    WaitOnWellFormed =>
        /\ waitCall.pc = "resolved" =>
               WaitedTxKnown /\ WaitedTx.status = "success"
        /\ waitCall.pc = "rejected" => WaitRejectedByRevert
        /\ waitCall.nwait <= 1

(* C14, amended: for a well-formed id the wait resolves only when the      *)
(* transaction is mined and successful and is not started a second time;   *)
(* it rejects when the transaction is mined and reverted, when the         *)
(* provider fails during the wait, or, on a v1 client whose init() has not *)
(* connected a provider yet, at once with a TypeError.                     *)
C14_OutcomeWhenMinedOrProviderFails ==
    WaitOnWellFormed =>
        /\ waitCall.pc = "resolved" =>
               WaitedTxKnown /\ WaitedTx.status = "success"
        /\ waitCall.pc = "rejected" =>
               \/ WaitRejectedByRevert
               \/ waitCall.err = ErrProvider /\ waitCall.nwait = 1
               \/ /\ waitCall.err = ErrTypeError
                  /\ version = "v1"
                  /\ ~waitCall.wrapperAtCall
                  /\ waitCall.nwait = 0
        /\ waitCall.wrapperAtCall => waitCall.nwait = 1
        /\ waitCall.nwait <= 1

C14_Witness ==
    /\ WaitOnWellFormed
    /\ waitCall.wrapperAtCall
    /\ waitCall.pc = "rejected"
    /\ WaitRejectedByRevert

\* the wait is on a transaction the dealer has broadcast for a handleTrade
\* call, and that transaction has reached a terminal state
WaitingOnTerminalTrade ==
    /\ waitCall.pc = "waiting"
    /\ WaitedTxKnown
    /\ WaitedTx.token = ""
    /\ WaitedTx.status \in {"success", "reverted"}

\* the outcome of the wait is the one of the transaction
MatchingOutcome(call) ==
    /\ WaitedTxKnown
    /\ \/ call.pc = "resolved" /\ WaitedTx.status = "success"
       \/ call.pc = "rejected" /\ call.err = ErrReverted
             /\ WaitedTx.status = "reverted"

(* C15, as claimed: a wait on a handleTrade transaction that has reached a *)
(* terminal state completes with the outcome of that transaction.          *)
C15_CompletesWithMatchingOutcome ==
    [][(WaitingOnTerminalTrade /\ Settled(waitCall')) =>
           MatchingOutcome(waitCall')]_vars

(* C15, amended: under fair scheduling of the polling loop a wait on a     *)
(* handleTrade transaction that has reached a terminal state eventually    *)
(* completes, with the outcome of that transaction or, when the provider   *)
(* fails during the wait, with the provider's error.                       *)
C15_TerminalWaitCompletes ==
    WaitingOnTerminalTrade ~>
        (Settled(waitCall) /\ (MatchingOutcome(waitCall)
                                  \/ waitCall.err = ErrProvider))

C15_Witness ==
    /\ waitCall.pc = "resolved"
    /\ WaitedTxKnown
    /\ WaitedTx.token = ""
    /\ WaitedTx.status = "success"
    /\ \E i \in TradeCallIds :
          tradeCalls[i].pc = "resolved" /\ tradeCalls[i].result = waitCall.txId

\* execution i of handleTrade fails at its signing request in this step
SigningFails(i) ==
    tradeCalls[i].pc = "signing" /\ tradeCalls'[i].pc = "rejected"

\* the step made no order POST for call i and left the session as it was
NoPostNoStateChange(i) ==
    /\ tradeCalls'[i].npost = 0
    /\ client' = client
    /\ submitted' = submitted
    /\ txs' = txs

SubmissionFailedWith(i, e) ==
    /\ tradeCalls[i].pc = "rejected"
    /\ tradeCalls[i].npost = 1
    /\ tradeCalls[i].err = ErrSubmitPrefix \o e

(* C17: a submission the dealer has rejected and a submission the          *)
(* transport has failed are never reported as the same kind of error.      *)
C17_RejectionAndTransportKindsDiffer ==
    \A i, j \in TradeCallIds :
        (SubmissionFailedWith(i, ErrHttpStatus)
            /\ SubmissionFailedWith(j, ErrTransport)) =>
                ErrorKind(tradeCalls[i].err) # ErrorKind(tradeCalls[j].err)

(* C18: no order POST is made on a session unless a hasAllowance call has  *)
(* completed with the result true before.                                  *)
C18_NoPostWithoutSufficientAllowance ==
    \A i \in TradeCallIds : tradeCalls[i].npost > 0 => sufficient # {}

(* C19: handleTrade resolves only with a well-formed transaction id.       *)
C19_ResolvesWithWellFormedTxId ==
    \A i \in TradeCallIds :
        tradeCalls[i].pc = "resolved" => IsTxId(tradeCalls[i].result)

\* getQuote is handed the dealer's response in this step
QuoteReceived ==
    /\ quoteCall.op = "getQuote"
    /\ quoteCall.pc = "request"
    /\ quoteCall'.pc = "resolved"

(* C20: every quote getQuote resolves with has an expiration strictly      *)
(* later than the time at which it is received.                            *)
C20_QuoteExpiresAfterReceipt ==
    [][QuoteReceived => quoteCall'.result.expiration > now]_vars

---------------------------------------------------------------------------
(* C21: handleTrade never requests a signature for, nor submits, a quote   *)
(* whose maker order's asset pair is not in the session's currently        *)
(* supported pairs list.                                                   *)
C21_SignsOnlySupportedPairs ==
    \A i \in TradeCallIds :
        client.initialized
        /\ (tradeCalls[i].nsign > 0 \/ tradeCalls[i].npost > 0)
            => tradeCalls[i].quote.pair \in client.pairs

---------------------------------------------------------------------------
(* C22: the client sends no order request to a dealer whose API version   *)
(* is not exactly its compatible version.                                  *)
C22_RefusesIncompatibleDealer ==
    dealerVersion # COMPATIBLE_VERSION(version)
        => \A i \in TradeCallIds : tradeCalls[i].npost = 0

---------------------------------------------------------------------------
\* the argument of the last makeBigNumber call reads as a number
ReadsAsNumber(x) == TypeOf(x) \in {"number", "string"} /\ x.k = "finite"

(* C25: makeBigNumber accepts a primitive number and a string holding a    *)
(* number and returns the BigNumber of that value in both cases; it        *)
(* rejects only arguments that are neither a number nor a string.          *)
C25_AcceptsNumbersAndNumericStrings ==
    bigNumberCall.pc # "free" =>
        /\ ReadsAsNumber(bigNumberCall.arg) =>
                /\ bigNumberCall.pc = "resolved"
                /\ bigNumberCall.result = [k |-> "finite", n |-> bigNumberCall.arg.n]
        /\ bigNumberCall.pc = "rejected" =>
                TypeOf(bigNumberCall.arg) \notin {"number", "string"}

---------------------------------------------------------------------------
\* handleTrade execution i is suspended at one of its awaits
TradeSuspended(i) == tradeCalls[i].pc \in {"signing", "converting", "posting"}

(* C23: the session's network context (network id, taker address,          *)
(* wrappers, gas price, pairs and tokens) does not change between the      *)
(* start and the end of a handleTrade execution, also when init() runs at  *)
(* its suspension points.                                                  *)
C23_ContextFixedDuringTrade ==
    [][client.initialized /\ (\E i \in TradeCallIds : TradeSuspended(i))
            => client' = client]_vars

(* C24: no two order submissions of one session are in flight at once.     *)
C24_OneSubmissionInFlight ==
    Cardinality({i \in TradeCallIds : tradeCalls[i].pc = "posting"}) <= 1

---------------------------------------------------------------------------
(* C26: in every handleTrade execution the order POST follows the one      *)
(* signature request, there is at most one POST per call, and the POSTed   *)
(* payload carries an address equal to the signer address the signature    *)
(* was requested for.                                                      *)
C26_PayloadMatchesSignature ==
    \A i \in TradeCallIds :
        /\ tradeCalls[i].npost <= 1
        /\ tradeCalls[i].npost > 0 => tradeCalls[i].nsign = 1
        /\ tradeCalls[i].pc = "posting" /\ tradeCalls[i].signer # "null"
              => tradeCalls[i].address = tradeCalls[i].signer

---------------------------------------------------------------------------
\* what init() has assigned but for the taker address
ContextLoaded ==
    /\ client.networkId # 0
    /\ client.contractWrappers
    /\ client.gasPrice
    /\ client.pairsDefined
    /\ client.tokensDefined
    /\ version = "v1" => client.web3
    /\ version = "v3" => client.erc20Token

(* C27, as claimed: initialized = true implies that network id, contract   *)
(* wrappers, taker address, pairs and tokens have all been loaded.         *)
C27_InitializedMeansAllLoaded ==
    client.initialized => ContextLoaded /\ client.coinbase # "null"

(* C27: initialized = true implies that network id, contract wrappers,     *)
(* pairs and tokens have been loaded (the taker address is the wallet's    *)
(* first account, absent when the wallet exposes none); the flag turns     *)
(* true only when the last step of init() has succeeded, so any failing    *)
(* step of a first init() leaves it false; once true it stays true.        *)
C27_InitializedMeansLoaded ==
    /\ [](client.initialized => ContextLoaded)
    /\ [][~client.initialized /\ client'.initialized
            => initPc = "assets" /\ initPc' = "idle"]_vars
    /\ [][client.initialized => client'.initialized]_vars

\* an initialized session without a taker address, its second init() at
\* the markets request
C27_Witness ==
    /\ client.initialized
    /\ client.coinbase = "null"
    /\ initPc = "markets"

---------------------------------------------------------------------------
\* handleTrade execution i is called in this step
TradeCalled(i) == tradeCalls[i].pc = "free" /\ tradeCalls'[i].pc # "free"

(* C28: handleTrade invoked on a client whose init() has not completed     *)
(* fails with the not-initialized error and makes no signing-provider or   *)
(* dealer call.                                                            *)
C28_TradeNeedsInit ==
    [][\A i \in TradeCallIds :
          ~client.initialized /\ TradeCalled(i)
              => /\ tradeCalls'[i].pc = "rejected"
                 /\ tradeCalls'[i].err = ErrNotInitialized
                 /\ tradeCalls'[i].nsign = 0]_vars

---------------------------------------------------------------------------
(* C29: hasAllowance and setAllowance called on an initialized session     *)
(* with a ticker that is not a key of the tokens map fail with the         *)
(* unsupported-ticker error before any on-chain call.                      *)
C29_UnsupportedTickerFailsFast ==
    /\ allowCall.pc # "free"
    /\ allowCall.initAtCall
    /\ allowCall.ticker \notin DOMAIN client.tokens
    => /\ allowCall.pc = "rejected"
       /\ allowCall.err = ErrUnsupportedTicker
       /\ allowCall.nchain = 0

---------------------------------------------------------------------------
\* the two variants of the comparison give the same answer for `a`
VariantsAgree(a) == HasAllowanceV3(a) = HasAllowanceV1(a)

(* C30, as claimed: the two protocol-version variants of hasAllowance are  *)
(* equivalent for every allowance value.                                   *)
C30_VariantsEquivalent ==
    HasAllowanceResolved => VariantsAgree(allowCall.read)

(* C30: the two variants of hasAllowance return the same boolean for       *)
(* every allowance value but one, half of the maximum rounded up (2^255),  *)
(* where the v1 variant answers true and the v3 variant false.             *)
C30_VariantsDifferOnlyAtHalf ==
    HasAllowanceResolved =>
        /\ VariantsAgree(allowCall.read) <=> allowCall.read # HalfAllowance
        /\ allowCall.read = HalfAllowance =>
                HasAllowanceV1(allowCall.read) /\ ~HasAllowanceV3(allowCall.read)
        /\ allowCall.result = HasAllowanceResult(version, allowCall.read)

\* a hasAllowance call that has read exactly half of the maximum
C30_Witness ==
    HasAllowanceResolved /\ allowCall.read = HalfAllowance

====
